---- MODULE Spec2Model ----
(***************************************************************************)
(* Calorie tracker server: OAuth credential store and authorization flow,  *)
(* the spreadsheet ledger (Sheet1!A:G), the summary engine and the targets *)
(* store (Settings!A2:D2), as implemented by the two server sources.       *)
(***************************************************************************)
EXTENDS Integers, Sequences, FiniteSets, TLC

VARIABLES
    tokenFile,      \* tokens.json: [exists, tokens]
    credentials,    \* oauth2Client.credentials (in memory)
    pending,        \* token refreshes started by the OAuth client, not yet delivered
    sheetsId,       \* process.env.GOOGLE_SHEETS_ID ("" when not configured)
    sheet1,         \* rows of Sheet1, physical order, 1-based in the sequence
    settings,       \* the Settings sheet: [exists, header, row2]
    confirming,     \* /confirm requests between their append and their read of A:A
    last            \* the last request or event handled, with its outcome

vars == <<tokenFile, credentials, pending, sheetsId, sheet1, settings, confirming, last>>

(***************************************************************************)
(* Bounds                                                                  *)
(***************************************************************************)
MaxRows == 3
MaxSummaryRows == 2
MaxPending == 2
MaxConfirming == 2

(***************************************************************************)
(* JavaScript values                                                       *)
(***************************************************************************)
\* a key that is not present in an object (undefined)
Absent == "<absent>"

\* JavaScript truthiness of a string-or-undefined value
Truthy(v) == v # Absent /\ v # ""

(***************************************************************************)
(* Credential store                                                        *)
(***************************************************************************)
TokenFields == {"access_token", "refresh_token"}

AccessTokens == {"a1", "a2"}
RefreshTokens == {"r1", "r2"}

\* oauth2Client.setCredentials({})
EmptyTokens == [f \in TokenFields |-> Absent]

\* token payloads the provider hands out: always an access token, the
\* refresh token present, empty or missing
TokenPayloads ==
    [access_token : AccessTokens, refresh_token : RefreshTokens \cup {"", Absent}]

NoFile == [exists |-> FALSE, tokens |-> EmptyTokens]

\* saveTokens(tokens): the file is overwritten wholesale
saveTokens(tokens) == [exists |-> TRUE, tokens |-> tokens]

\* a merge that forgets the stored record
MergeTokensDropsExisting(existing, tokens) == tokens

\* { ...existingTokens, ...tokens }
MergeTokens(existing, tokens) ==
    [f \in TokenFields |-> IF tokens[f] # Absent THEN tokens[f] ELSE existing[f]]

\* loadTokens(): credentials after start-up for a given tokens.json
loadTokens(file) == IF file.exists THEN file.tokens ELSE EmptyTokens

\* oauth2Client.credentials && oauth2Client.credentials.access_token
isAuthenticated == Truthy(credentials.access_token)

\* a gate that forgets the spreadsheet id
GateIgnoresSheetsId == isAuthenticated

\* process.env.GOOGLE_SHEETS_ID && oauth2Client.credentials?.access_token
Gate == sheetsId # "" /\ isAuthenticated

(***************************************************************************)
(* Authorization flow                                                      *)
(***************************************************************************)
\* GET /auth/status
AuthStatus ==
    /\ last' = [route |-> "auth_status", status |-> 200,
                authenticated |-> isAuthenticated]
    /\ UNCHANGED <<tokenFile, credentials, pending, sheetsId, sheet1, settings, confirming>>

\* GET /auth/google
AuthGoogle ==
    /\ last' = [route |-> "auth_google", status |-> 302,
                redirect |-> "authUrl"]
    /\ UNCHANGED <<tokenFile, credentials, pending, sheetsId, sheet1, settings, confirming>>

\* GET /auth/google/callback; exchanged: getToken(code) resolved with tokens
AuthCallback(exchanged, tokens) ==
    /\ IF exchanged
       THEN /\ credentials' = tokens
            /\ tokenFile' = saveTokens(tokens)
            /\ last' = [route |-> "auth_callback", status |-> 302,
                        exchanged |-> TRUE,
                        redirect |-> "/?authenticated=true"]
       ELSE /\ UNCHANGED <<credentials, tokenFile>>
            /\ last' = [route |-> "auth_callback", status |-> 302,
                        exchanged |-> FALSE,
                        redirect |-> "/?error=auth_failed"]
    /\ UNCHANGED <<pending, sheetsId, sheet1, settings, confirming>>

\* a disconnect that forgets to reset the in-memory credentials
AuthDisconnectKeepsMemory(unlinkOk) ==
    /\ IF tokenFile.exists /\ ~unlinkOk
       THEN /\ UNCHANGED <<tokenFile, credentials>>
            /\ last' = [route |-> "auth_disconnect", status |-> 500]
       ELSE /\ tokenFile' = NoFile
            /\ UNCHANGED credentials
            /\ last' = [route |-> "auth_disconnect", status |-> 200]
    /\ UNCHANGED <<pending, sheetsId, sheet1, settings, confirming>>

\* POST /auth/disconnect; unlinkOk: fs.unlinkSync did not throw
AuthDisconnect(unlinkOk) ==
    /\ IF tokenFile.exists /\ ~unlinkOk
       THEN /\ UNCHANGED <<tokenFile, credentials>>
            /\ last' = [route |-> "auth_disconnect", status |-> 500]
       ELSE /\ tokenFile' = NoFile
            /\ credentials' = EmptyTokens
            /\ last' = [route |-> "auth_disconnect", status |-> 200]
    /\ UNCHANGED <<pending, sheetsId, sheet1, settings, confirming>>

\* the OAuth client, used by a remote call, finds the access token expired
\* and starts a refresh with the refresh token it holds
StartRefresh ==
    /\ Truthy(credentials.refresh_token)
    /\ pending < MaxPending
    /\ pending' = pending + 1
    /\ last' = [route |-> "refresh_started", status |-> 0]
    /\ UNCHANGED <<tokenFile, credentials, sheetsId, sheet1, settings, confirming>>

\* oauth2Client.on('tokens', ...): a started refresh delivers its payload
OnTokens(tokens) ==
    /\ pending > 0
    /\ pending' = pending - 1
    /\ IF Truthy(tokens.refresh_token)
       THEN /\ tokenFile' = saveTokens(tokens)
            /\ last' = [route |-> "on_tokens", status |-> 0,
                        payload |-> tokens, threw |-> FALSE]
       ELSE IF tokenFile.exists
            THEN /\ tokenFile' = saveTokens(MergeTokens(tokenFile.tokens, tokens))
                 /\ last' = [route |-> "on_tokens", status |-> 0,
                             payload |-> tokens, threw |-> FALSE]
            ELSE \* fs.readFileSync throws ENOENT inside the listener
                 /\ UNCHANGED tokenFile
                 /\ last' = [route |-> "on_tokens", status |-> 0,
                             payload |-> tokens, threw |-> TRUE]
    /\ UNCHANGED <<credentials, sheetsId, sheet1, settings, confirming>>

(***************************************************************************)
(* Spreadsheet cells                                                       *)
(***************************************************************************)
\* a cell holding a number, int.frac as the sheet formats it ("12.5")
Num(i, f) == [numeric |-> TRUE, int |-> i, frac |-> f]

\* a blank cell, or one holding text that is not a number
NaNCell == [numeric |-> FALSE, int |-> 0, frac |-> 0]

\* parseInt(cell) || dflt : the integer part, dflt for NaN and for 0
ParseIntOr(cell, dflt) ==
    IF cell.numeric /\ cell.int # 0 THEN cell.int ELSE dflt

\* column A: a calendar date written as text, or a word, or blank ("")
DateCell(text, y, m, d) == [text |-> text, y |-> y, m |-> m, d |-> d]
WordCell(text) == [text |-> text, y |-> 0, m |-> 0, d |-> 0]
BlankDate == WordCell("")
IsCalendarDate(cell) == cell.text \in {"M/D/YYYY", "MM/DD/YYYY"}

\* cell?.toLowerCase() === 'date'
LowerIsDate(cell) == cell.text \in {"Date", "date", "DATE"}

\* values: [[date, time, food, calories, protein, carbs, fat]]
Row(date, time, food, macros) ==
    [date |-> date, time |-> time, food |-> food,
     calories |-> macros[1], protein |-> macros[2],
     carbs |-> macros[3], fat |-> macros[4]]

\* the header row the README asks for
HeaderRow ==
    Row(WordCell("Date"), "Time", "Food", <<NaNCell, NaNCell, NaNCell, NaNCell>>)

\* a row of which only D:G were ever written
MacrosOnlyRow(macros) == Row(BlankDate, "", "", macros)
BlankRow == MacrosOnlyRow(<<NaNCell, NaNCell, NaNCell, NaNCell>>)

\* the sheet's grid is taller than any data the model holds
MaxPhys == MaxRows + 1

(***************************************************************************)
(* The remote spreadsheet store (Google Sheets API v4)                     *)
(***************************************************************************)
\* spreadsheets.values.append on Sheet1!A:G: one row after the last one
ValuesAppend(rows, row) == Append(rows, row)

\* spreadsheets.values.get on Sheet1!A:A: trailing blank cells are left out
ColumnALength(rows) ==
    LET filled == {i \in 1..Len(rows) : rows[i].date.text # ""}
    IN  IF filled = {} THEN 0 ELSE CHOOSE i \in filled : \A j \in filled : j <= i

\* deleteDimension ROWS [startIndex, endIndex) with endIndex = startIndex + 1;
\* startIndex is 0-based; a row of the grid below the data is removed as well
DeleteDimension(rows, startIndex) ==
    IF startIndex + 1 \in 1..Len(rows)
    THEN [i \in 1..(Len(rows) - 1) |->
            IF i < startIndex + 1 THEN rows[i] ELSE rows[i + 1]]
    ELSE rows

\* spreadsheets.values.update on Sheet1!D<r>:G<r>, r is 1-based
ValuesUpdate(rows, r, macros) ==
    IF r \in 1..Len(rows)
    THEN [rows EXCEPT ![r] = [@ EXCEPT !.calories = macros[1],
                                       !.protein = macros[2],
                                       !.carbs = macros[3],
                                       !.fat = macros[4]]]
    ELSE [i \in 1..r |->
            IF i <= Len(rows) THEN rows[i]
            ELSE IF i = r THEN MacrosOnlyRow(macros) ELSE BlankRow]

(***************************************************************************)
(* POST /analyze                                                           *)
(***************************************************************************)
\* src/unnamed/part_000. llm: "ok", "error" (the completion call rejects)
\* or "malformed" (JSON.parse throws); nutrition: what the model answered
Analyze(food, image, date, nutrition, llm) ==
    /\ IF food = "" /\ image = ""
       THEN last' = [route |-> "analyze", status |-> 400, calls |-> <<>>]
       ELSE IF llm # "ok"
       THEN last' = [route |-> "analyze", status |-> 500, calls |-> <<>>]
       ELSE last' = [route |-> "analyze", status |-> 200, calls |-> <<>>,
                     food |-> food, macros |-> nutrition, date |-> date,
                     logged |-> FALSE]
    /\ UNCHANGED <<tokenFile, credentials, pending, sheetsId, sheet1, settings, confirming>>

\* src/server.js. appendOk: the remote append did not fail
AnalyzeServerJs(food, date, time, nutrition, llm, appendOk) ==
    IF food = ""
    THEN /\ last' = [route |-> "analyze", status |-> 400, calls |-> <<>>]
         /\ UNCHANGED <<tokenFile, credentials, pending, sheetsId, sheet1, settings, confirming>>
    ELSE IF llm # "ok"
    THEN /\ last' = [route |-> "analyze", status |-> 500, calls |-> <<>>]
         /\ UNCHANGED <<tokenFile, credentials, pending, sheetsId, sheet1, settings, confirming>>
    ELSE IF Gate
    THEN /\ sheet1' = IF appendOk
                      THEN ValuesAppend(sheet1, Row(date, time, food, nutrition))
                      ELSE sheet1
         /\ last' = [route |-> "analyze", status |-> 200,
                     calls |-> <<"values.append">>,
                     food |-> food, macros |-> nutrition, date |-> date,
                     logged |-> appendOk]
         /\ UNCHANGED <<tokenFile, credentials, pending, sheetsId, settings, confirming>>
    ELSE /\ last' = [route |-> "analyze", status |-> 200, calls |-> <<>>,
                     food |-> food, macros |-> nutrition, date |-> date,
                     logged |-> FALSE]
         /\ UNCHANGED <<tokenFile, credentials, pending, sheetsId, sheet1, settings, confirming>>

(***************************************************************************)
(* POST /confirm                                                           *)
(***************************************************************************)
\* a response that answers 500 when the append failed
ConfirmResponseFailsOnAppendError(food, macros, date, time, logged, rowIndex, calls, appendFailed) ==
    IF appendFailed
    THEN [route |-> "confirm", status |-> 500, calls |-> calls,
          req |-> <<food, macros, date, time>>, appendFailed |-> appendFailed]
    ELSE [route |-> "confirm", status |-> 200, calls |-> calls,
          req |-> <<food, macros, date, time>>,
          food |-> food, macros |-> macros, date |-> date, time |-> time,
          logged |-> logged, rowIndex |-> rowIndex,
          appendFailed |-> appendFailed]

\* res.json({food, calories, protein, carbs, fat, date, time, logged, rowIndex})
\* after the inner try/catch; req is the submitted body, rowIndex is {} for
\* null and {k} for the integer k
ConfirmResponse(food, macros, date, time, logged, rowIndex, calls, appendFailed) ==
    [route |-> "confirm", status |-> 200, calls |-> calls,
     req |-> <<food, macros, date, time>>,
     food |-> food, macros |-> macros, date |-> date, time |-> time,
     logged |-> logged, rowIndex |-> rowIndex,
     appendFailed |-> appendFailed]

\* failAt: 0 no remote failure, 1 the append fails, 2 the read of A:A fails
Confirm(food, macros, date, time, failAt) ==
    LET appended == ValuesAppend(sheet1, Row(date, time, food, macros))
        \* (response.data.values?.length || 1) - 2
        n == ColumnALength(appended)
        newIndex == (IF n = 0 THEN 1 ELSE n) - 2
        echo(logged, rowIndex, calls, appendFailed) ==
            ConfirmResponse(food, macros, date, time, logged, rowIndex, calls,
                            appendFailed)
    IN
    IF food = ""
    THEN /\ last' = [route |-> "confirm", status |-> 400, calls |-> <<>>,
                     req |-> <<food, macros, date, time>>,
                     appendFailed |-> FALSE]
         /\ UNCHANGED <<tokenFile, credentials, pending, sheetsId, sheet1, settings, confirming>>
    ELSE IF ~Gate
    THEN /\ last' = echo(FALSE, {}, <<>>, FALSE)
         /\ UNCHANGED <<tokenFile, credentials, pending, sheetsId, sheet1, settings, confirming>>
    ELSE IF failAt = 1
    THEN /\ last' = echo(FALSE, {}, <<"values.append">>, TRUE)
         /\ UNCHANGED <<tokenFile, credentials, pending, sheetsId, sheet1, settings, confirming>>
    ELSE /\ sheet1' = appended
         /\ last' = IF failAt = 2
                    THEN echo(TRUE, {}, <<"values.append", "values.get">>, FALSE)
                    ELSE echo(TRUE, {newIndex}, <<"values.append", "values.get">>, FALSE)
         /\ UNCHANGED <<tokenFile, credentials, pending, sheetsId, settings, confirming>>

\* POST /confirm up to the end of its append (the first await): the request
\* answers at once when the food is missing, when the gate is closed or when
\* the append fails; otherwise it is suspended before its read of A:A
ConfirmAppend(food, macros, date, time, appendOk) ==
    IF food = ""
    THEN /\ last' = [route |-> "confirm", status |-> 400, calls |-> <<>>,
                     req |-> <<food, macros, date, time>>,
                     appendFailed |-> FALSE]
         /\ UNCHANGED <<tokenFile, credentials, pending, sheetsId, sheet1, settings, confirming>>
    ELSE IF ~Gate
    THEN /\ last' = ConfirmResponse(food, macros, date, time, FALSE, {}, <<>>, FALSE)
         /\ UNCHANGED <<tokenFile, credentials, pending, sheetsId, sheet1, settings, confirming>>
    ELSE IF ~appendOk
    THEN /\ last' = ConfirmResponse(food, macros, date, time, FALSE, {},
                                    <<"values.append">>, TRUE)
         /\ UNCHANGED <<tokenFile, credentials, pending, sheetsId, sheet1, settings, confirming>>
    ELSE /\ sheet1' = ValuesAppend(sheet1, Row(date, time, food, macros))
         /\ confirming' = Append(confirming, [food |-> food, macros |-> macros,
                                              date |-> date, time |-> time])
         /\ last' = [route |-> "confirm_appended", status |-> 0,
                     calls |-> <<"values.append">>]
         /\ UNCHANGED <<tokenFile, credentials, pending, sheetsId, settings>>

\* the rest of POST /confirm for the suspended request i: the read of
\* Sheet1!A:A, the row index and the response
ConfirmReadIndex(i, readOk) ==
    LET r == confirming[i]
        \* (response.data.values?.length || 1) - 2
        n == ColumnALength(sheet1)
        newIndex == (IF n = 0 THEN 1 ELSE n) - 2
    IN  /\ i \in 1..Len(confirming)
        /\ confirming' = [j \in 1..(Len(confirming) - 1) |->
                            IF j < i THEN confirming[j] ELSE confirming[j + 1]]
        /\ last' = ConfirmResponse(r.food, r.macros, r.date, r.time, TRUE,
                                   IF readOk THEN {newIndex} ELSE {},
                                   <<"values.append", "values.get">>, FALSE)
        /\ UNCHANGED <<tokenFile, credentials, pending, sheetsId, sheet1, settings>>

(***************************************************************************)
(* GET /entries, DELETE /entries/:rowIndex, PUT /entries/:rowIndex         *)
(***************************************************************************)
\* rows[0]?.[0]?.toLowerCase() === 'date'
hasHeader(rows) == Len(rows) > 0 /\ LowerIsDate(rows[1].date)

\* rows.map((row, index) => ({row, index})).filter(...): index is 0-based
KeptRows(rows, date) ==
    LET indexed == [i \in 1..Len(rows) |-> [row |-> rows[i], index |-> i - 1]]
        keep(x) == ~(x.index = 0 /\ hasHeader(rows)) /\ x.row.date = date
    IN  SelectSeq(indexed, keep)

\* the entries of the response
EntriesOf(rows, date) ==
    LET kept == KeptRows(rows, date)
    IN  [j \in 1..Len(kept) |->
            [rowIndex |-> IF hasHeader(rows) THEN kept[j].index - 1
                                             ELSE kept[j].index,
             date |-> kept[j].row.date,
             time |-> kept[j].row.time,
             food |-> kept[j].row.food,
             calories |-> ParseIntOr(kept[j].row.calories, 0),
             protein |-> ParseIntOr(kept[j].row.protein, 0),
             carbs |-> ParseIntOr(kept[j].row.carbs, 0),
             fat |-> ParseIntOr(kept[j].row.fat, 0),
             logged |-> TRUE]]

\* GET /entries?date=...; readOk: the remote read did not fail
Entries(date, readOk) ==
    /\ IF ~Gate
       THEN last' = [route |-> "entries", status |-> 200, calls |-> <<>>,
                     date |-> date, entries |-> <<>>, authenticated |-> FALSE]
       ELSE IF ~readOk
       THEN last' = [route |-> "entries", status |-> 500,
                     calls |-> <<"values.get">>]
       ELSE last' = [route |-> "entries", status |-> 200,
                     calls |-> <<"values.get">>, date |-> date,
                     entries |-> EntriesOf(sheet1, date),
                     authenticated |-> TRUE]
    /\ UNCHANGED <<tokenFile, credentials, pending, sheetsId, sheet1, settings, confirming>>

\* const sheetRowIndex = parseInt(rowIndex) + 2
sheetRowIndex(rowIndex) == rowIndex + 2

\* DELETE /entries/:rowIndex; remoteOk: batchUpdate did not fail
DeleteEntry(rowIndex, remoteOk) ==
    IF ~Gate
    THEN /\ last' = [route |-> "delete_entry", status |-> 401, calls |-> <<>>,
                     rowIndex |-> rowIndex]
         /\ UNCHANGED <<tokenFile, credentials, pending, sheetsId, sheet1, settings, confirming>>
    ELSE IF ~remoteOk
    THEN /\ last' = [route |-> "delete_entry", status |-> 500,
                     calls |-> <<"batchUpdate">>, rowIndex |-> rowIndex]
         /\ UNCHANGED <<tokenFile, credentials, pending, sheetsId, sheet1, settings, confirming>>
    ELSE /\ sheet1' = DeleteDimension(sheet1, sheetRowIndex(rowIndex) - 1)
         /\ last' = [route |-> "delete_entry", status |-> 200,
                     calls |-> <<"batchUpdate">>, rowIndex |-> rowIndex]
         /\ UNCHANGED <<tokenFile, credentials, pending, sheetsId, settings, confirming>>

\* PUT /entries/:rowIndex; remoteOk: values.update did not fail
UpdateEntry(rowIndex, macros, remoteOk) ==
    IF ~Gate
    THEN /\ last' = [route |-> "update_entry", status |-> 401, calls |-> <<>>,
                     rowIndex |-> rowIndex, macros |-> macros]
         /\ UNCHANGED <<tokenFile, credentials, pending, sheetsId, sheet1, settings, confirming>>
    ELSE IF ~remoteOk
    THEN /\ last' = [route |-> "update_entry", status |-> 500,
                     calls |-> <<"values.update">>,
                     rowIndex |-> rowIndex, macros |-> macros]
         /\ UNCHANGED <<tokenFile, credentials, pending, sheetsId, sheet1, settings, confirming>>
    ELSE /\ sheet1' = ValuesUpdate(sheet1, sheetRowIndex(rowIndex), macros)
         /\ last' = [route |-> "update_entry", status |-> 200,
                     calls |-> <<"values.update">>,
                     rowIndex |-> rowIndex, macros |-> macros]
         /\ UNCHANGED <<tokenFile, credentials, pending, sheetsId, settings, confirming>>

(***************************************************************************)
(* JavaScript Date arithmetic (local wall clock, whole hours)              *)
(***************************************************************************)
IsLeap(y) == (y % 4 = 0 /\ y % 100 # 0) \/ y % 400 = 0

DaysInMonth(y, m) ==
    IF m = 2 THEN (IF IsLeap(y) THEN 29 ELSE 28)
    ELSE IF m \in {4, 6, 9, 11} THEN 30 ELSE 31

DaysInYear(y) == IF IsLeap(y) THEN 366 ELSE 365

\* days from 1 January 2023 to 1 January of year y
RECURSIVE DayFromYear(_)
DayFromYear(y) ==
    IF y = 2023 THEN 0
    ELSE IF y > 2023 THEN DayFromYear(y - 1) + DaysInYear(y - 1)
    ELSE DayFromYear(y + 1) - DaysInYear(y)

\* days from 1 January to the first of month m
DaysBeforeMonth(y, m) ==
    <<0, 31, 59, 90, 120, 151, 181, 212, 243, 273, 304, 334>>[m]
    + (IF m > 2 /\ IsLeap(y) THEN 1 ELSE 0)

\* MakeDay(year, month, date) of new Date(year, month, date): the month
\* (1-based here) and the date may lie outside their ranges and carry over
MakeDay(y, m, d) ==
    LET ym == y * 12 + (m - 1)
        ny == ym \div 12
        nm == (ym % 12) + 1
    IN  DayFromYear(ny) + DaysBeforeMonth(ny, nm) + d - 1

\* the time value of local midnight + h hours, in hours
TimeValue(y, m, d, h) == MakeDay(y, m, d) * 24 + h

\* the calendar day after / before [y, m, d]
NextDay(t) ==
    IF t.d < DaysInMonth(t.y, t.m) THEN [t EXCEPT !.d = t.d + 1]
    ELSE IF t.m < 12 THEN [t EXCEPT !.m = t.m + 1, !.d = 1]
    ELSE [t EXCEPT !.y = t.y + 1, !.m = 1, !.d = 1]

PrevDay(t) ==
    IF t.d > 1 THEN [t EXCEPT !.d = t.d - 1]
    ELSE IF t.m > 1 THEN [t EXCEPT !.m = t.m - 1, !.d = DaysInMonth(t.y, t.m - 1)]
    ELSE [t EXCEPT !.y = t.y - 1, !.m = 12, !.d = 31]

\* the offset from UTC of the zones the model uses (none observes DST);
\* timezone || 'UTC'
UtcOffset(tz) ==
    IF tz = "Asia/Tokyo" THEN 9
    ELSE IF tz = "America/Phoenix" THEN 0 - 7
    ELSE 0

\* now.toLocaleString('en-US', {timeZone: tz}) read back by new Date(...):
\* the wall clock fields [y, m, d, h] of the instant utc in the zone tz
ToLocale(utc, tz) ==
    LET h == utc.h + UtcOffset(tz)
    IN  IF h < 0 THEN [PrevDay(utc) EXCEPT !.h = h + 24]
        ELSE IF h >= 24 THEN [NextDay(utc) EXCEPT !.h = h - 24]
        ELSE [utc EXCEPT !.h = h]

\* startDate for the period, from the fields n of nowInTz
StartDate(period, n) ==
    IF period = "daily" THEN TimeValue(n.y, n.m, n.d, 0)
    ELSE IF period = "weekly" THEN TimeValue(n.y, n.m, n.d - 7, 0)
    ELSE IF period = "monthly" THEN TimeValue(n.y, n.m - 1, n.d, 0)
    ELSE TimeValue(n.y, n.m, n.d, 0)

\* new Date(row[0]) is a valid date
ParsesAsDate(cell) == IsCalendarDate(cell)

\* new Date(row[0]).getTime() for a cell that parses
RowDate(cell) == TimeValue(cell.y, cell.m, cell.d, 0)

(***************************************************************************)
(* GET /summary                                                            *)
(***************************************************************************)
\* the positions (1-based) of the rows the forEach accumulates
MatchedRows(rows, startDate, nowValue) ==
    {i \in 1..Len(rows) :
        /\ ~(i = 1 /\ LowerIsDate(rows[i].date))
        /\ ParsesAsDate(rows[i].date)
        /\ RowDate(rows[i].date) >= startDate
        /\ RowDate(rows[i].date) <= nowValue}

\* the running total of one macro over the matched rows, in row order
RECURSIVE TotalUpTo(_, _, _, _)
TotalUpTo(rows, matched, col, n) ==
    IF n = 0 THEN 0
    ELSE TotalUpTo(rows, matched, col, n - 1)
         + (IF n \in matched THEN ParseIntOr(rows[n][col], 0) ELSE 0)

Total(rows, matched, col) == TotalUpTo(rows, matched, col, Len(rows))

\* Object.keys(dailyTotals).length || 1
DaysCount(rows, matched) ==
    LET keys == {rows[i].date : i \in matched}
    IN  IF Cardinality(keys) = 0 THEN 1 ELSE Cardinality(keys)

\* an average that truncates
MathRoundTruncates(total, n) == total \div n

\* Math.round(total / n) for n > 0: halves round up
MathRound(total, n) == (2 * total + n) \div (2 * n)

MacroColumns == <<"calories", "protein", "carbs", "fat">>

\* GET /summary?period=..&timezone=..; utc: new Date(); readOk: the remote
\* read did not fail
Summary(period, tz, utc, readOk) ==
    /\ IF ~Gate
       THEN last' = [route |-> "summary", status |-> 200, calls |-> <<>>,
                     error |-> "Not authenticated", authenticated |-> FALSE]
       ELSE IF ~readOk
       THEN last' = [route |-> "summary", status |-> 500,
                     calls |-> <<"values.get">>]
       ELSE \E n \in {ToLocale(utc, tz)} :
            \E startDate \in {StartDate(period, n)},
               nowValue \in {TimeValue(n.y, n.m, n.d, n.h)} :
            \E matched \in {MatchedRows(sheet1, startDate, nowValue)} :
            \E days \in {DaysCount(sheet1, matched)} :
            LET totals == [c \in 1..4 |-> Total(sheet1, matched, MacroColumns[c])]
            IN  last' = [route |-> "summary", status |-> 200,
                         calls |-> <<"values.get">>,
                         period |-> period, tz |-> tz, utc |-> utc,
                         totals |-> totals,
                         entryCount |-> Cardinality(matched),
                         daysCount |-> days,
                         avgs |-> [c \in 1..4 |-> MathRound(totals[c], days)],
                         authenticated |-> TRUE,
                         matched |-> matched]
    /\ UNCHANGED <<tokenFile, credentials, pending, sheetsId, sheet1, settings, confirming>>

(***************************************************************************)
(* GET /settings/targets, PUT /settings/targets                            *)
(***************************************************************************)
BlankCells == <<NaNCell, NaNCell, NaNCell, NaNCell>>

NoSettings == [exists |-> FALSE, header |-> FALSE, row2 |-> BlankCells]

\* res.json({ calories: 1800, protein: 180, carbs: 115, fat: 65 })
DefaultTargets == <<1800, 180, 115, 65>>

\* GET that lets the failed read of Settings!A2:D2 reach the outer catch
GetTargetsWithoutInnerCatch(readOk) ==
    /\ IF ~Gate
       THEN last' = [route |-> "get_targets", status |-> 401, calls |-> <<>>]
       ELSE IF ~settings.exists \/ ~readOk
       THEN last' = [route |-> "get_targets", status |-> 500,
                     calls |-> <<"values.get">>]
       ELSE IF settings.row2 = BlankCells
       THEN last' = [route |-> "get_targets", status |-> 200,
                     calls |-> <<"values.get">>, caught |-> FALSE,
                     targets |-> DefaultTargets]
       ELSE last' = [route |-> "get_targets", status |-> 200,
                     calls |-> <<"values.get">>, caught |-> FALSE,
                     targets |-> [c \in 1..4 |->
                                    ParseIntOr(settings.row2[c], DefaultTargets[c])]]
    /\ UNCHANGED <<tokenFile, credentials, pending, sheetsId, sheet1, settings, confirming>>

\* GET /settings/targets; readOk: the remote read does not fail for a reason
\* other than a missing Settings sheet
GetTargets(readOk) ==
    /\ IF ~Gate
       THEN last' = [route |-> "get_targets", status |-> 401, calls |-> <<>>]
       ELSE IF ~settings.exists \/ ~readOk
       THEN \* the read rejects; the inner catch answers with the defaults
            last' = [route |-> "get_targets", status |-> 200,
                     calls |-> <<"values.get">>, caught |-> TRUE,
                     targets |-> DefaultTargets]
       ELSE IF settings.row2 = BlankCells
       THEN \* response.data.values is undefined
            last' = [route |-> "get_targets", status |-> 200,
                     calls |-> <<"values.get">>, caught |-> FALSE,
                     targets |-> DefaultTargets]
       ELSE last' = [route |-> "get_targets", status |-> 200,
                     calls |-> <<"values.get">>, caught |-> FALSE,
                     targets |-> [c \in 1..4 |->
                                    ParseIntOr(settings.row2[c], DefaultTargets[c])]]
    /\ UNCHANGED <<tokenFile, credentials, pending, sheetsId, sheet1, settings, confirming>>

\* PUT /settings/targets; failAt: the position, among the remote calls the
\* request issues, of the call that fails (0: none fails)
PutTargets(targets, failAt) ==
    LET calls == IF settings.exists
                 THEN <<"spreadsheets.get", "values.update">>
                 ELSE <<"spreadsheets.get", "batchUpdate",
                        "values.update", "values.update">>
        failed == failAt \in 1..Len(calls)
        issued == IF failed THEN SubSeq(calls, 1, failAt) ELSE calls
        done == IF failed THEN failAt - 1 ELSE Len(calls)
    IN
    IF ~Gate
    THEN /\ last' = [route |-> "put_targets", status |-> 401, calls |-> <<>>,
                     targets |-> targets]
         /\ UNCHANGED <<tokenFile, credentials, pending, sheetsId, sheet1, settings, confirming>>
    ELSE /\ settings' =
                IF settings.exists
                THEN [settings EXCEPT !.row2 = IF done >= 2 THEN targets ELSE @]
                ELSE [exists |-> done >= 2,
                      header |-> done >= 3,
                      row2 |-> IF done >= 4 THEN targets ELSE settings.row2]
         /\ last' = [route |-> "put_targets",
                     status |-> IF failed THEN 500 ELSE 200,
                     calls |-> issued, targets |-> targets]
         /\ UNCHANGED <<tokenFile, credentials, pending, sheetsId, sheet1, confirming>>

(***************************************************************************)
(* Request inputs                                                          *)
(***************************************************************************)
Foods == {"", "oats"}
Images == {"", "data:image/png;base64,AAAA"}
Times == {"08:30 AM"}
LlmOutcomes == {"ok", "error", "malformed"}

MacrosA == <<Num(1, 0), Num(2, 5), Num(0, 5), NaNCell>>
MacrosB == <<Num(2, 0), Num(1, 0), Num(3, 9), Num(0, 0)>>

Mar10 == DateCell("M/D/YYYY", 2024, 3, 10)
Mar09 == DateCell("M/D/YYYY", 2024, 3, 9)

\* 2024-03-10T20:00Z and 2024-03-31T12:00Z and 2024-01-05T03:00Z
UtcMar10 == [y |-> 2024, m |-> 3, d |-> 10, h |-> 20]
UtcMar31 == [y |-> 2024, m |-> 3, d |-> 31, h |-> 12]
UtcJan05 == [y |-> 2024, m |-> 1, d |-> 5, h |-> 3]

LedgerDates == {Mar10, Mar09}
LedgerTokens == [access_token |-> "a1", refresh_token |-> "r1"]
RowIndexes == 0..MaxRows

\* the rows /confirm is asked to log in the summary specification
SummaryRows ==
    {<<Mar10, MacrosA>>,
     <<DateCell("MM/DD/YYYY", 2024, 3, 10), MacrosB>>,
     <<Mar09, MacrosB>>,
     <<DateCell("M/D/YYYY", 2024, 3, 11), MacrosA>>,
     <<DateCell("M/D/YYYY", 2024, 3, 3), MacrosB>>,
     <<DateCell("M/D/YYYY", 2024, 3, 2), MacrosA>>,
     <<DateCell("M/D/YYYY", 2024, 3, 1), MacrosB>>,
     <<DateCell("M/D/YYYY", 2023, 12, 29), MacrosA>>,
     <<WordCell("yesterday"), MacrosB>>}
Periods == {"daily", "weekly", "monthly", "yearly"}

\* new Date() and the timezone of the query, per request
Clocks ==
    {<<UtcMar10, "">>, <<UtcMar10, "Asia/Tokyo">>, <<UtcMar10, "America/Phoenix">>,
     <<UtcMar31, "">>, <<UtcJan05, "America/Phoenix">>}

TargetInputs == {<<Num(2000, 0), Num(150, 0), Num(200, 5), Num(70, 0)>>,
                 <<Num(1500, 0), NaNCell, Num(90, 0), Num(50, 0)>>,
                 <<Num(2200, 0), Num(160, 0), Num(0, 0), Num(80, 0)>>,
                 <<Num(1600, 0), Num(120, 0), Num(180, 0), Num(60, 0)>>}

(***************************************************************************)
(* Specifications                                                          *)
(***************************************************************************)
Started == [route |-> "listen", status |-> 0, calls |-> <<>>]

\* the ledger routes of src/unnamed/part_000, authorization switched by the
\* callback and disconnect routes
Init ==
    /\ tokenFile \in {NoFile, saveTokens(LedgerTokens)}
    /\ credentials = loadTokens(tokenFile)
    /\ pending = 0
    /\ sheetsId \in {"", "sheet-id"}
    /\ sheet1 \in {<<>>, <<HeaderRow>>}
    /\ settings = NoSettings
    /\ confirming = <<>>
    /\ last = Started

Next ==
    \/ \E exchanged \in BOOLEAN : AuthCallback(exchanged, LedgerTokens)
    \/ \E unlinkOk \in BOOLEAN : AuthDisconnect(unlinkOk)
    \/ \E food \in Foods, image \in Images, llm \in LlmOutcomes :
          Analyze(food, image, Mar10, MacrosA, llm)
    \/ \E food \in Foods, date \in LedgerDates, time \in Times, failAt \in 0..2 :
          /\ Len(sheet1) < MaxRows
          /\ Confirm(food, MacrosA, date, time, failAt)
    \/ \E date \in LedgerDates, readOk \in BOOLEAN : Entries(date, readOk)
    \/ \E k \in RowIndexes, remoteOk \in BOOLEAN : DeleteEntry(k, remoteOk)
    \/ \E k \in RowIndexes, remoteOk \in BOOLEAN :
          /\ sheetRowIndex(k) <= MaxPhys
          /\ UpdateEntry(k, MacrosB, remoteOk)

Spec == Init /\ [][Next]_vars

\* the credential store and the authorization flow
InitAuth ==
    /\ tokenFile \in {NoFile} \cup {saveTokens(t) : t \in TokenPayloads}
    /\ credentials = loadTokens(tokenFile)
    /\ pending = 0
    /\ sheetsId = "sheet-id"
    /\ sheet1 = <<HeaderRow>>
    /\ settings = NoSettings
    /\ confirming = <<>>
    /\ last = Started

NextAuth ==
    \/ AuthStatus
    \/ AuthGoogle
    \/ \E exchanged \in BOOLEAN, t \in TokenPayloads : AuthCallback(exchanged, t)
    \/ \E unlinkOk \in BOOLEAN : AuthDisconnect(unlinkOk)
    \/ StartRefresh
    \/ \E t \in TokenPayloads : OnTokens(t)

SpecAuth == InitAuth /\ [][NextAuth]_vars

\* every route behind the authorization gate
NextGate ==
    \/ \E exchanged \in BOOLEAN : AuthCallback(exchanged, LedgerTokens)
    \/ \E unlinkOk \in BOOLEAN : AuthDisconnect(unlinkOk)
    \/ \E failAt \in 0..2 :
          /\ Len(sheet1) < MaxRows
          /\ Confirm("oats", MacrosA, Mar10, "08:30 AM", failAt)
    \/ \E readOk \in BOOLEAN : Entries(Mar10, readOk)
    \/ \E k \in RowIndexes, remoteOk \in BOOLEAN : DeleteEntry(k, remoteOk)
    \/ \E k \in RowIndexes, remoteOk \in BOOLEAN :
          /\ sheetRowIndex(k) <= MaxPhys
          /\ UpdateEntry(k, MacrosB, remoteOk)
    \/ \E readOk \in BOOLEAN : Summary("daily", "", UtcMar10, readOk)
    \/ \E readOk \in BOOLEAN : GetTargets(readOk)
    \/ \E t \in TargetInputs, failAt \in 0..4 : PutTargets(t, failAt)

SpecGate == Init /\ [][NextGate]_vars

\* the summary engine over ledgers built by /confirm
InitSummary ==
    /\ tokenFile = saveTokens(LedgerTokens)
    /\ credentials = loadTokens(tokenFile)
    /\ pending = 0
    /\ sheetsId = "sheet-id"
    /\ sheet1 \in {<<>>, <<HeaderRow>>}
    /\ settings = NoSettings
    /\ confirming = <<>>
    /\ last = Started

NextSummary ==
    \/ \E r \in SummaryRows :
          /\ Len(sheet1) < MaxSummaryRows
          /\ Confirm("oats", r[2], r[1], "08:30 AM", 0)
    \/ \E period \in Periods, clock \in Clocks :
          Summary(period, clock[2], clock[1], TRUE)
    \/ Summary("daily", "", UtcMar10, FALSE)

SpecSummary == InitSummary /\ [][NextSummary]_vars

\* the targets store
NextTargets ==
    \/ \E exchanged \in BOOLEAN : AuthCallback(exchanged, LedgerTokens)
    \/ \E unlinkOk \in BOOLEAN : AuthDisconnect(unlinkOk)
    \/ \E readOk \in BOOLEAN : GetTargets(readOk)
    \/ \E t \in TargetInputs, failAt \in 0..4 : PutTargets(t, failAt)

SpecTargets == Init /\ [][NextTargets]_vars

\* /confirm requests running concurrently: each await is a step of its own
ConfirmTimes == {"08:30 AM", "08:31 AM"}

NextConfirm ==
    \/ \E food \in Foods, date \in LedgerDates, time \in ConfirmTimes,
          appendOk \in BOOLEAN :
          /\ Len(sheet1) < MaxRows
          /\ Len(confirming) < MaxConfirming
          /\ ConfirmAppend(food, MacrosA, date, time, appendOk)
    \/ \E i \in 1..Len(confirming), readOk \in BOOLEAN : ConfirmReadIndex(i, readOk)
    \/ \E date \in LedgerDates, readOk \in BOOLEAN : Entries(date, readOk)

SpecConfirm == Init /\ [][NextConfirm]_vars

\* src/server.js: the authorization routes and its own /analyze
NextServerJs ==
    \/ AuthStatus
    \/ \E exchanged \in BOOLEAN : AuthCallback(exchanged, LedgerTokens)
    \/ \E unlinkOk \in BOOLEAN : AuthDisconnect(unlinkOk)
    \/ \E food \in Foods, date \in LedgerDates, time \in Times,
          llm \in LlmOutcomes, appendOk \in BOOLEAN :
          /\ Len(sheet1) < MaxRows
          /\ AnalyzeServerJs(food, date, time, MacrosA, llm, appendOk)

SpecServerJs == Init /\ [][NextServerJs]_vars

(***************************************************************************)
(* Properties                                                              *)
(***************************************************************************)
Range(seq) == {seq[i] : i \in 1..Len(seq)}

\* no access token held in memory, or no spreadsheet id configured
Unauthorized == credentials.access_token \in {Absent, ""} \/ sheetsId = ""

\* C1: every POST /analyze leaves the ledger as it was, issues no remote
\* spreadsheet call and, when it answers 200, answers with logged = false.
C1_AnalyzeNeverWrites ==
    [][last'.route = "analyze" =>
          /\ sheet1' = sheet1
          /\ last'.calls = <<>>
          /\ (last'.status = 200 => last'.logged = FALSE)]_vars

\* C2: a POST /confirm with a non-empty food whose append failed, or that
\* found the authorization or the spreadsheet id missing, answers 200 with
\* the submitted fields, logged = false and no row index.
C2_ConfirmDegradesToNotLogged ==
    (/\ last.route = "confirm"
     /\ last.req[1] # ""
     /\ (last.appendFailed \/ Unauthorized))
    => /\ last.status = 200
       /\ <<last.food, last.macros, last.date, last.time>> = last.req
       /\ last.logged = FALSE
       /\ last.rowIndex = {}

C2_Witness ==
    /\ last.route = "confirm"
    /\ last.status = 200
    /\ last.appendFailed
    /\ ~Unauthorized
    /\ last.calls = <<"values.append">>

\* C3: while no access token is held or no spreadsheet id is configured,
\* each gated route answers with its not-authenticated outcome and issues
\* no call to the remote store.
C3_GatedRoutesShortCircuit ==
    Unauthorized =>
      /\ (last.route \in {"confirm", "summary", "entries", "delete_entry",
                          "update_entry", "get_targets", "put_targets"}
            => last.calls = <<>>)
      /\ (last.route = "confirm" /\ last.status # 400
            => last.status = 200 /\ last.logged = FALSE /\ last.rowIndex = {})
      /\ (last.route = "summary"
            => /\ last.status = 200
               /\ last.authenticated = FALSE
               /\ last.error = "Not authenticated")
      /\ (last.route = "entries"
            => last.status = 200 /\ last.authenticated = FALSE /\ last.entries = <<>>)
      /\ (last.route \in {"delete_entry", "update_entry", "get_targets", "put_targets"}
            => last.status = 401)

C3_Witness ==
    /\ isAuthenticated
    /\ sheetsId = ""
    /\ last.route = "put_targets"
    /\ last.status = 401
    /\ sheet1 # <<>>

\* the calendar dates logged in the ledger
LoggedDates(rows) ==
    {rows[i].date : i \in {j \in 1..Len(rows) : IsCalendarDate(rows[j].date)}}

\* the entries GET /entries reports for the ledger rows, over every logged date
AllEntries(rows) == UNION {Range(EntriesOf(rows, d)) : d \in LoggedDates(rows)}

\* the physical positions (1-based) of the rows GET /entries reports under
\* rowIndex k
PhysicalRowsOf(rows, k) ==
    {i \in 1..Len(rows) :
        /\ IsCalendarDate(rows[i].date)
        /\ \E j \in 1..Len(KeptRows(rows, rows[i].date)) :
              /\ KeptRows(rows, rows[i].date)[j].index = i - 1
              /\ EntriesOf(rows, rows[i].date)[j].rowIndex = k}

RemoveAt(rows, p) ==
    [i \in 1..(Len(rows) - 1) |-> IF i < p THEN rows[i] ELSE rows[i + 1]]

\* C4: after a successful DELETE /entries/k of a listed entry, every entry
\* listed before with a row index above k is listed with its row index
\* lowered by one, and every entry with a row index below k is listed
\* unchanged.
C4_DeleteShiftsLaterEntries ==
    [][(/\ last'.route = "delete_entry"
        /\ last'.status = 200
        /\ PhysicalRowsOf(sheet1, last'.rowIndex) # {})
       => \A e \in AllEntries(sheet1) :
            /\ (e.rowIndex > last'.rowIndex
                  => [e EXCEPT !.rowIndex = @ - 1] \in AllEntries(sheet1'))
            /\ (e.rowIndex < last'.rowIndex => e \in AllEntries(sheet1'))]_vars

\* C10: a DELETE or PUT /entries/k issued right after GET /entries reported
\* an entry under rowIndex k acts on the physical row of that entry: the
\* delete removes that row and no other, the update rewrites the four macro
\* cells of that row and nothing else.
C10_RowIndexAddressesListedEntry ==
    [][(last'.route \in {"delete_entry", "update_entry"} /\ last'.status = 200)
       => \A p \in PhysicalRowsOf(sheet1, last'.rowIndex) :
            IF last'.route = "delete_entry"
            THEN sheet1' = RemoveAt(sheet1, p)
            ELSE sheet1' = [sheet1 EXCEPT ![p] =
                               Row(@.date, @.time, @.food, last'.macros)]]_vars

\* C5: a token event whose payload has no refresh_token, arriving while a
\* credential record is persisted, leaves the record in place with the same
\* refresh_token and with every field of the payload written over it.
C5_RefreshKeepsRefreshToken ==
    [][(/\ last'.route = "on_tokens"
        /\ last'.payload.refresh_token = Absent
        /\ tokenFile.exists)
       => /\ tokenFile'.exists
          /\ tokenFile'.tokens.refresh_token = tokenFile.tokens.refresh_token
          /\ \A f \in TokenFields :
                tokenFile'.tokens[f] =
                    IF last'.payload[f] = Absent THEN tokenFile.tokens[f]
                                                 ELSE last'.payload[f]]_vars

\* a refresh without refresh_token has been merged into a record that held
\* one, and changed the access token
C5_Witness ==
    /\ last.route = "on_tokens"
    /\ last.payload.refresh_token = Absent
    /\ ~last.threw
    /\ tokenFile.exists
    /\ tokenFile.tokens.refresh_token = "r2"
    /\ tokenFile.tokens.access_token = last.payload.access_token
    /\ credentials.access_token # tokenFile.tokens.access_token

\* C6: GET /auth/status answers authenticated exactly when an access token
\* is held in memory; a callback whose exchange fails changes neither the
\* credentials in memory nor the persisted record and redirects to
\* /?error=auth_failed; a successful callback leaves an access token in
\* memory; a successful disconnect leaves none.
C6_StatusFollowsMemory ==
    [][/\ (last'.route = "auth_status"
             => last'.authenticated = (credentials'.access_token \notin {Absent, ""}))
       /\ (last'.route = "auth_callback" /\ ~last'.exchanged
             => /\ credentials' = credentials
                /\ tokenFile' = tokenFile
                /\ last'.redirect = "/?error=auth_failed")
       /\ (last'.route = "auth_callback" /\ last'.exchanged
             => /\ credentials'.access_token \notin {Absent, ""}
                /\ tokenFile'.exists
                /\ last'.redirect = "/?authenticated=true")
       /\ (last'.route = "auth_disconnect" /\ last'.status = 200
             => /\ credentials'.access_token \in {Absent, ""}
                /\ ~tokenFile'.exists)]_vars

\* a callback whose exchange failed has left the flow unauthenticated
C6_Witness ==
    /\ last.route = "auth_callback"
    /\ ~last.exchanged
    /\ last.redirect = "/?error=auth_failed"
    /\ credentials = EmptyTokens
    /\ ~tokenFile.exists

\* C7: authorized and configured, GET /settings/targets answers 200 with
\* exactly the defaults when the Settings sheet is missing or its A2:D2 is
\* empty.
C7_TargetsDefaultWhenAbsent ==
    (/\ last.route = "get_targets"
     /\ ~Unauthorized
     /\ (~settings.exists \/ settings.row2 = BlankCells))
    => /\ last.status = 200
       /\ last.targets = <<1800, 180, 115, 65>>

C7_Witness ==
    /\ last.route = "get_targets"
    /\ ~Unauthorized
    /\ ~settings.exists
    /\ last.status = 200
    /\ last.calls = <<"values.get">>

\* the day number of a calendar date
DayOf(t) == MakeDay(t.y, t.m, t.d)

\* the rows that can be counted at all: dated by a calendar date, and not
\* the header in the first row
Countable(rows) ==
    {i \in 1..Len(rows) :
        IsCalendarDate(rows[i].date) /\ ~(i = 1 /\ LowerIsDate(rows[i].date))}

\* the day one calendar month before the day n: the same day of the
\* previous month, or the last day of that month when it is shorter
OneMonthEarlier(n) ==
    LET py == IF n.m = 1 THEN n.y - 1 ELSE n.y
        pm == IF n.m = 1 THEN 12 ELSE n.m - 1
        pd == IF n.d <= DaysInMonth(py, pm) THEN n.d ELSE DaysInMonth(py, pm)
    IN  MakeDay(py, pm, pd)

\* the first day of the window, for today's fields n in the client's zone
WindowStartDay(period, n) ==
    CASE period = "weekly" -> DayOf(n) - 7
      [] period = "monthly" -> OneMonthEarlier(n)
      [] OTHER -> DayOf(n)

\* C8: GET /summary counts exactly the rows whose date lies between the
\* start of the window and now, in the client's timezone: from today for
\* daily and unknown periods, from 7 days earlier for weekly, from one
\* calendar month earlier for monthly; daily counts the rows dated today
\* and none dated yesterday or tomorrow.
C8_SummaryWindow ==
    (last.route = "summary" /\ last.status = 200 /\ last.authenticated)
    => LET n == ToLocale(last.utc, last.tz)
       IN  /\ last.matched =
                {i \in Countable(sheet1) :
                    /\ WindowStartDay(last.period, n) <= DayOf(sheet1[i].date)
                    /\ DayOf(sheet1[i].date) * 24 <= DayOf(n) * 24 + n.h}
           /\ (last.period \notin {"weekly", "monthly"}
                 => last.matched =
                      {i \in Countable(sheet1) :
                          /\ sheet1[i].date.y = n.y
                          /\ sheet1[i].date.m = n.m
                          /\ sheet1[i].date.d = n.d})

\* the macro of a row as the service reads it: parseInt(cell) || 0
MacroOf(row, c) == ParseIntOr(row[MacroColumns[c]], 0)

RECURSIVE SumOver(_, _, _)
SumOver(rows, set, c) ==
    IF set = {} THEN 0
    ELSE LET i == CHOOSE x \in set : TRUE
         IN  MacroOf(rows[i], c) + SumOver(rows, set \ {i}, c)

C11_ConfirmIndexIsOwnEntry ==
    (last.route = "confirm" /\ last.status = 200 /\ last.logged)
    => /\ last.rowIndex # {}
       /\ \A k \in last.rowIndex :
            \E e \in Range(EntriesOf(sheet1, last.date)) :
                /\ e.rowIndex = k
                /\ e.time = last.time
                /\ e.food = last.food


\* no persisted credential record and no access token held in memory
Disconnected == ~tokenFile.exists /\ ~Truthy(credentials.access_token)

\* C12: from POST /auth/disconnect's success on, no credential record is
\* persisted and no access token is held in memory until the next successful
\* authorization callback; a token-refresh event of a request that was in
\* flight neither re-creates the record nor throws out of its listener.
C12_DisconnectIsFinal ==
    [][(/\ Disconnected
        /\ ~(last'.route = "auth_callback" /\ last'.exchanged))
       => /\ Disconnected'
          /\ ~(last'.route = "on_tokens" /\ last'.threw)]_vars


\* four non-negative integer targets
IntegerTargets(cells) ==
    \A c \in 1..4 : cells[c].numeric /\ cells[c].frac = 0 /\ cells[c].int >= 0

\* C13: a GET /settings/targets whose read of the Settings sheet succeeds
\* returns exactly the four non-negative integer targets (zero included) the
\* last successful PUT /settings/targets stored; a successful PUT stores its
\* targets, and creates the Settings sheet with its header row when absent.
C13_TargetsRoundTrip ==
    [][/\ (/\ last'.route = "get_targets"
           /\ last'.status = 200
           /\ ~last'.caught
           /\ settings.exists
           /\ IntegerTargets(settings.row2))
          => last'.targets = [c \in 1..4 |-> settings.row2[c].int]
       /\ (last'.route = "put_targets" /\ last'.status = 200)
          => /\ settings'.exists
             /\ settings'.row2 = last'.targets
             /\ (~settings.exists => settings'.header)]_vars

====
